---- MODULE Spec2Model ----
(***************************************************************************)
(* Model of the visitreports service (src/main.go): the contact-change     *)
(* listener with its concurrent fan-out (setupSubscription, updateInBg)    *)
(* and the report mutation handlers (create, update, delete) with their    *)
(* event publication.  The document store, the subscription transport and  *)
(* the outbound topic are external collaborators; they are modelled at the *)
(* call sites by the outcomes the calls can have.                          *)
(***************************************************************************)
EXTENDS Integers, Sequences, FiniteSets, TLC

\* ---------------------------------------------------------------- bounds
MaxReports == 2     \* number of report ids uuid.New() can hand out
MaxOps == 2         \* messages delivered plus HTTP requests served in a run

\* ------------------------------------------------------------- constants
PartitionKeyValue == "visitreport"
CreatedEventType == "VisitReportCreatedEvent"
UpdatedEventType == "VisitReportUpdatedEvent"
EventVersion == "1"
StatusOK == 200
StatusCreated == 201
StatusBadRequest == 400
StatusInternalServerError == 500

\* ------------------------------------------------------------ data types
IdPool == <<"r1", "r2", "r3", "r4">>
ReportIds == {IdPool[i] : i \in 1..MaxReports}
ForeignId == "x9"
AllIds == ReportIds \cup {ForeignId}

\* ContactDoc{} : the zero value of the struct
ContactDoc(id, fn, ln, av, co) ==
  [Id |-> id, Firstname |-> fn, Lastname |-> ln, AvatarLocation |-> av, Company |-> co]

ZeroContactDoc == ContactDoc("", "", "", "", "")

\* VisitReportModel{} : the zero value of the struct
ZeroVisitReportModel ==
  [Id |-> "", Type |-> "", DetectedLanguage |-> "", Subject |-> "",
   Description |-> "", VisitDate |-> "", Result |-> "",
   VisitResultSentimentScore |-> 0, VisitResultKeyPhrases |-> <<>>,
   Contact |-> ZeroContactDoc]

\* VisitReportReadDoc{} : the zero value of the struct
ZeroVisitReportReadDoc ==
  [Id |-> "", Subject |-> "", Description |-> "", VisitDate |-> "", Result |-> "",
   VisitResultSentimentScore |-> 0, VisitResultKeyPhrases |-> <<>>,
   Contact |-> ZeroContactDoc]

\* ------------------------------------------------------- input alphabets
Ann == ContactDoc("c1", "Ann", "Lee", "a1.png", "Acme")
Cyd == ContactDoc("c2", "Cyd", "Roe", "c1.png", "Cobalt")

\* request bodies a client posts to create (bound into a VisitReportModel)
CreateBodies ==
  { [ZeroVisitReportModel EXCEPT !.Id = "client-id", !.Type = "client-type",
       !.Subject = "Q1 review", !.Description = "d1", !.VisitDate = "2020-01-01",
       !.Result = "r-old", !.VisitResultSentimentScore = 7,
       !.VisitResultKeyPhrases = <<"k1">>, !.DetectedLanguage = "en",
       !.Contact = Ann],
    [ZeroVisitReportModel EXCEPT
       !.Subject = "Q2 review", !.Description = "d2", !.VisitDate = "2020-04-01",
       !.Contact = Cyd] }

\* payloads the transport delivers.  A payload is the JSON text of a
\* contact: syntaxOk is FALSE for text that is not JSON; a field value of
\* NotAString stands for a JSON number where the struct wants a string.
NotAString == "#number"

Payload(ok, id, fn, ln, av, co) ==
  [syntaxOk |-> ok, id |-> id, firstname |-> fn, lastname |-> ln,
   avatarLocation |-> av, company |-> co]

Payloads ==
  { Payload(TRUE, "c1", "Anna", "Li", "a2.png", "Apex"),
    Payload(FALSE, "", "", "", "", ""),
    Payload(TRUE, "c1", NotAString, "Lo", "a4.png", "Alto") }

\* two well-formed notifications for the same contact
RacingPayloads ==
  { Payload(TRUE, "c1", "Anna", "Li", "a2.png", "Apex"),
    Payload(TRUE, "c1", "Anne", "Lu", "a3.png", "Axis") }

NoPayload == Payload(FALSE, "", "", "", "", "")

\* a create body that fails binding: contact.id is required
InvalidCreateBody ==
  [ZeroVisitReportModel EXCEPT !.Subject = "Q3 review", !.VisitDate = "2020-07-01"]

CreateInputs == CreateBodies \cup {InvalidCreateBody}

\* VisitReportUpdateDoc{} : the zero value of the struct
ZeroVisitReportUpdateDoc ==
  [Id |-> "", Subject |-> "", Description |-> "", Result |-> "", VisitDate |-> "",
   Contact |-> ZeroContactDoc]

\* request bodies a client puts to update; the body's id is chosen apart.
\* The second one fails binding: subject is required.
UpdateBodies ==
  { [ZeroVisitReportUpdateDoc EXCEPT
       !.Subject = "Q1 final", !.Description = "d9", !.Result = "r-new",
       !.VisitDate = "2020-02-02",
       !.Contact = ContactDoc("c1", "Ada", "Lim", "a9.png", "Ajax")],
    [ZeroVisitReportUpdateDoc EXCEPT
       !.VisitDate = "2020-08-08", !.Contact = Ann] }

\* ------------------------------------------------------ pure conversions
\* json.Unmarshal(m.Data, &doc) into a ContactDoc: invalid JSON leaves doc
\* untouched; a field of the wrong JSON type is skipped, the remaining
\* fields are still decoded, and the first type error is returned.
DecodeField(v) == IF v = NotAString THEN "" ELSE v

UnmarshalContactDoc(p) ==
  IF ~p.syntaxOk
  THEN ZeroContactDoc
  ELSE ContactDoc(DecodeField(p.id), DecodeField(p.firstname), DecodeField(p.lastname),
                  DecodeField(p.avatarLocation), DecodeField(p.company))

UnmarshalErr(p) ==
  \/ ~p.syntaxOk
  \/ NotAString \in {p.id, p.firstname, p.lastname, p.avatarLocation, p.company}

WellFormed(p) == ~UnmarshalErr(p)

createBindErrorNever(vr) == FALSE

\* c.ShouldBindJSON(&vr) of create: vr is a VisitReportModel, whose only
\* binding rule is the required id of the embedded ContactDoc
createBindError(vr) == vr.Contact.Id = ""

\* c.ShouldBindJSON(&vr) of update: the binding:"required" fields of
\* VisitReportUpdateDoc
updateBindError(vr) ==
  vr.Id = "" \/ vr.Subject = "" \/ vr.VisitDate = "" \/ vr.Contact.Id = ""

\* copier.Copy(&out, &doc), doc a VisitReportModel and out a
\* VisitReportReadDoc (also the one embedded in a VisitReportEventDoc): every
\* field of the source that the target has by name is assigned
CopyModelToReadDoc(out, doc) ==
  [out EXCEPT !.Id = doc.Id, !.Subject = doc.Subject, !.Description = doc.Description,
              !.VisitDate = doc.VisitDate, !.Result = doc.Result,
              !.VisitResultSentimentScore = doc.VisitResultSentimentScore,
              !.VisitResultKeyPhrases = doc.VisitResultKeyPhrases,
              !.Contact = doc.Contact]

\* an overlay that builds the report from the body alone
CopyUpdateDocToModelWhole(model, vr) ==
  [ZeroVisitReportModel EXCEPT
     !.Type = model.Type, !.Id = vr.Id, !.Subject = vr.Subject,
     !.Description = vr.Description, !.Result = vr.Result,
     !.VisitDate = vr.VisitDate, !.Contact = vr.Contact]

CopyUpdateDocToModelNoResult(model, vr) ==
  [model EXCEPT !.Id = vr.Id, !.Subject = vr.Subject, !.Description = vr.Description,
                !.VisitDate = vr.VisitDate, !.Contact = vr.Contact]

\* copier.Copy(&model, &vr), vr a VisitReportUpdateDoc
CopyUpdateDocToModel(model, vr) ==
  [model EXCEPT !.Id = vr.Id, !.Subject = vr.Subject, !.Description = vr.Description,
                !.Result = vr.Result, !.VisitDate = vr.VisitDate, !.Contact = vr.Contact]

\* copier.Copy(&model, &doc), doc a VisitReportReadDoc: the first argument
\* is the target
CopyReadDocToModel(model, doc) ==
  [model EXCEPT !.Id = doc.Id, !.Subject = doc.Subject, !.Description = doc.Description,
                !.VisitDate = doc.VisitDate, !.Result = doc.Result,
                !.VisitResultSentimentScore = doc.VisitResultSentimentScore,
                !.VisitResultKeyPhrases = doc.VisitResultKeyPhrases,
                !.Contact = doc.Contact]

\* VisitReportEventDoc: eventType, version and the embedded read document
EventDoc(eventType, doc) ==
  [EventType |-> eventType, Version |-> EventVersion,
   VisitReportReadDoc |-> CopyModelToReadDoc(ZeroVisitReportReadDoc, doc)]

\* what the client sees: the status line and the body written
Response(status, kind, doc) == [status |-> status, kind |-> kind, doc |-> doc]

NoResponse == Response(0, "none", ZeroVisitReportReadDoc)

\* the contact a well-formed payload describes
ContactOf(p) == ContactDoc(p.id, p.firstname, p.lastname, p.avatarLocation, p.company)


\* ------------------------------------------------------------ the store
\* The store maps the id of each existing document of the "visitreports"
\* collection to the document.  Every call names the partition
\* "visitreport"; the partition key of a document is its type field.
EmptyDocs == [k \in {} |-> ZeroVisitReportModel]

\* a query that drops the contact-id filter ("SELECT * FROM c", as list uses)
QueryDocumentsUnfiltered(s, contactid) ==
  LET hit == {k \in DOMAIN s : s[k].Type = PartitionKeyValue}
  IN  [k \in hit |-> s[k]]

\* currentClient.QueryDocuments(..., "SELECT * FROM c where c.contact.id =
\* @contactid", &docs, qops) when the call succeeds
QueryDocuments(s, contactid) ==
  LET hit == {k \in DOMAIN s : s[k].Type = PartitionKeyValue /\ s[k].Contact.Id = contactid}
  IN  [k \in hit |-> s[k]]

\* currentClient.ReplaceDocument(..., id, doc, ops): the store accepts the
\* call only for an existing document, a document of the named partition,
\* and an id that stays unique
ReplaceAccepted(s, id, doc) ==
  /\ id \in DOMAIN s
  /\ doc.Type = PartitionKeyValue
  /\ doc.Id # ""
  /\ (doc.Id = id \/ doc.Id \notin DOMAIN s)

\* the store after an accepted replace: the document addressed by id now
\* has the content doc (and doc's id)
ReplaceDocument(s, id, doc) ==
  [k \in (DOMAIN s \ {id}) \cup {doc.Id} |-> IF k = doc.Id THEN doc ELSE s[k]]

\* --------------------------------------------------------------- state
VARIABLES
  store,      \* the documents of the collection, by id
  listener,   \* per handler invocation slot: the handler's locals and calls
  delivered,  \* messages handed to the handler so far
  req,        \* the HTTP request being served and its handler's locals
  topic,      \* events accepted by the outbound topic, in order
  served,     \* HTTP requests accepted so far
  usedIds     \* ids uuid.New() has handed out

vars == <<store, listener, delivered, req, topic, served, usedIds>>

Handlers == {"h1", "h2"}

NoWork == [k \in AllIds |-> "none"]

IdleHandler ==
  [pc |-> "idle", m |-> NoPayload, doc |-> ZeroContactDoc, err |-> FALSE,
   errQuery |-> FALSE, docs |-> EmptyDocs, work |-> NoWork,
   abandonCalls |-> 0, completeCalls |-> 0, queryCalls |-> 0, replaceCalls |-> 0,
   ret |-> "none", store0 |-> EmptyDocs,
   prev |-> [same |-> FALSE, clean |-> FALSE]]

\* every store call of the invocation l succeeded
AllSucceeded(l) ==
  /\ l.pc = "done"
  /\ ~l.errQuery
  /\ \A k \in DOMAIN l.docs : l.work[k] = "ok"

PersistedUnstamped(id, b) == [b EXCEPT !.Id = id]

\* a stored report as create persists it from body b under id
Persisted(id, b) == [b EXCEPT !.Id = id, !.Type = PartitionKeyValue]

\* the stores the service can start with: reports created earlier, whose
\* ids were handed out in the order of the pool
InitStores ==
  UNION { [{IdPool[i] : i \in 1..n} -> CreateBodies] : n \in 0..MaxReports }

IdleReq ==
  [pc |-> "idle", kind |-> "none", reportid |-> "", bindErr |-> FALSE,
   vr |-> ZeroVisitReportUpdateDoc, model |-> ZeroVisitReportModel,
   doc |-> ZeroVisitReportModel, written |-> ZeroVisitReportModel,
   wrote |-> FALSE, errRead |-> FALSE, sends |-> 0, errSend |-> FALSE,
   storeCalls |-> 0, topic0 |-> 0, resp |-> NoResponse]

\* a request as its handler starts; topic0 remembers how many events the
\* topic held then
StartReq == [IdleReq EXCEPT !.topic0 = Len(topic)]

Init ==
  /\ \E f \in InitStores : store = [k \in DOMAIN f |-> Persisted(k, f[k])]
  /\ listener = [h \in Handlers |-> IdleHandler]
  /\ delivered = 0
  /\ req = IdleReq
  /\ topic = <<>>
  /\ served = 0
  /\ usedIds = DOMAIN store

\* ------------------------------------------------- contact-change listener
\* the handler function up to its query: decode the payload, abandon the
\* message when decoding failed, and go on to build the query.  The
\* receiver runs handler invocations concurrently; the invocations are
\* interchangeable, so the second slot is used only while the first is busy.
Handle(h, p) ==
  /\ listener[h].pc \in {"idle", "done"}
  /\ h = "h2" => listener["h1"].pc \notin {"idle", "done"}
  /\ delivered + served < MaxOps
  /\ delivered' = delivered + 1
  /\ listener' = [listener EXCEPT ![h] =
       [IdleHandler EXCEPT
          !.pc = "query",
          !.m = p,
          !.doc = UnmarshalContactDoc(p),
          !.err = UnmarshalErr(p),
          !.abandonCalls = IF UnmarshalErr(p) THEN 1 ELSE 0,
          !.store0 = store,
          !.prev = [same |-> listener[h].pc = "done" /\ listener[h].m = p,
                    clean |-> AllSucceeded(listener[h])]]]
  /\ UNCHANGED <<store, req, topic, served, usedIds>>

\* the documents the handler starts a goroutine for: one per element of docs
Spawned(docs) == [k \in AllIds |-> IF k \in DOMAIN docs THEN "running" ELSE "none"]

\* QueryDocuments for doc.Id, then wg.Add(1) and go updateInBg(v, &doc, &wg)
\* for every returned document; a failed query leaves docs nil
HandleQuery(h, ok) ==
  LET l == listener[h]
      docs == IF ok THEN QueryDocuments(store, l.doc.Id) ELSE EmptyDocs
  IN  /\ l.pc = "query"
      /\ listener' = [listener EXCEPT ![h] =
           [l EXCEPT !.pc = "wait", !.errQuery = ~ok, !.docs = docs,
                     !.queryCalls = @ + 1, !.work = Spawned(docs)]]
      /\ UNCHANGED <<store, delivered, req, topic, served, usedIds>>

\* updateInBg forgetting one of the four assignments
updateInBgDocNoCompany(doc, contact) ==
  [doc EXCEPT !.Contact.Firstname = contact.Firstname,
              !.Contact.Lastname = contact.Lastname,
              !.Contact.AvatarLocation = contact.AvatarLocation,
              !.Type = PartitionKeyValue]

\* updateInBg building a fresh document instead of changing the queried one
updateInBgDocFresh(doc, contact) ==
  [ZeroVisitReportModel EXCEPT !.Id = doc.Id, !.Type = PartitionKeyValue,
                               !.Contact = [contact EXCEPT !.Id = doc.Contact.Id]]

\* updateInBg taking the company from the stored avatar location
updateInBgDocShifted(doc, contact) ==
  [doc EXCEPT !.Contact.Firstname = contact.Firstname,
              !.Contact.Lastname = contact.Lastname,
              !.Contact.Company = doc.Contact.AvatarLocation,
              !.Contact.AvatarLocation = contact.AvatarLocation,
              !.Type = PartitionKeyValue]

\* the document updateInBg hands to ReplaceDocument
updateInBgDoc(doc, contact) ==
  [doc EXCEPT !.Contact.Firstname = contact.Firstname,
              !.Contact.Lastname = contact.Lastname,
              !.Contact.AvatarLocation = contact.AvatarLocation,
              !.Contact.Company = contact.Company,
              !.Type = PartitionKeyValue]

\* a fan-out in which the first failing replace cancels the goroutines
\* that have not replaced yet
wgDoneAbortsSiblings(work, id, ok) ==
  [k \in DOMAIN work |->
     IF k = id THEN (IF ok THEN "ok" ELSE "err")
     ELSE IF ~ok /\ work[k] = "running" THEN "skipped" ELSE work[k]]

\* a goroutine that tries its replace again after an error
wgDoneRetries(work, id, ok) == [work EXCEPT ![id] = IF ok THEN "ok" ELSE "running"]

\* defer wg.Done(): the goroutine of document id ends; an error of its
\* replace is only printed
wgDone(work, id, ok) == [work EXCEPT ![id] = IF ok THEN "ok" ELSE "err"]

\* one goroutine: updateInBg(v, &doc, &wg)
updateInBg(h, id, ok) ==
  LET l == listener[h]
      doc == updateInBgDoc(l.docs[id], l.doc)
  IN  /\ l.pc = "wait"
      /\ l.work[id] = "running"
      /\ ok => ReplaceAccepted(store, doc.Id, doc)
      /\ store' = IF ok THEN ReplaceDocument(store, doc.Id, doc) ELSE store
      /\ listener' = [listener EXCEPT ![h] =
           [l EXCEPT !.work = wgDone(l.work, id, ok), !.replaceCalls = @ + 1]]
      /\ UNCHANGED <<delivered, req, topic, served, usedIds>>

\* a handler that does not wait for its goroutines
wgWaitNoBarrier(work) == TRUE

\* a barrier that is released only by goroutines whose replace succeeded
wgWaitForSuccess(work) == \A k \in DOMAIN work : work[k] \in {"none", "ok"}

\* wg.Wait() returns when no goroutine of this invocation is running

wgWait(work) == \A k \in DOMAIN work : work[k] # "running"

\* m.Complete: the transport refuses to complete a message whose lock the
\* handler already gave up by abandoning it
Complete(abandonCalls) == IF abandonCalls > 0 THEN "err" ELSE "nil"

\* wg.Wait(); err = m.Complete(...); return err
HandleComplete(h) ==
  LET l == listener[h]
  IN  /\ l.pc = "wait"
      /\ wgWait(l.work)
      /\ listener' = [listener EXCEPT ![h] =
           [l EXCEPT !.pc = "done", !.completeCalls = @ + 1,
                     !.ret = Complete(l.abandonCalls)]]
      /\ UNCHANGED <<store, delivered, req, topic, served, usedIds>>

\* ---------------------------------------------------------- HTTP handlers
DeleteDocumentOfAll(s, id) == EmptyDocs

\* DeleteDocument / CreateDocument on the store
DeleteDocument(s, id) == [k \in DOMAIN s \ {id} |-> s[k]]

CreateDocument(s, doc) == [k \in DOMAIN s \cup {doc.Id} |-> IF k = doc.Id THEN doc ELSE s[k]]

\* the response of a handler that returns without writing one: gin sends
\* its default status and no body
DefaultResponse == Response(StatusOK, "empty", ZeroVisitReportReadDoc)

\* create up to CreateDocument: bind, stamp type and a new id, create
create(b, ok) ==
  LET vr == Persisted(CHOOSE k \in ReportIds : k \notin usedIds, b)
  IN  /\ req.pc \in {"idle", "done"}
      /\ delivered + served < MaxOps
      /\ served' = served + 1
      /\ IF createBindError(b)
         THEN /\ req' = [StartReq EXCEPT !.pc = "done", !.kind = "create", !.bindErr = TRUE,
                           !.resp = Response(StatusBadRequest, "error", ZeroVisitReportReadDoc)]
              /\ UNCHANGED <<store, usedIds>>
         ELSE /\ usedIds # ReportIds
              /\ usedIds' = usedIds \cup {vr.Id}
              /\ IF ok
                 THEN /\ store' = CreateDocument(store, vr)
                      /\ req' = [StartReq EXCEPT !.pc = "create_read", !.kind = "create",
                                   !.model = vr, !.reportid = vr.Id, !.wrote = TRUE,
                                   !.written = vr, !.storeCalls = 1]
                 ELSE /\ store' = store
                      /\ req' = [StartReq EXCEPT !.pc = "done", !.kind = "create",
                                   !.model = vr, !.storeCalls = 1,
                                   !.resp = Response(StatusInternalServerError, "empty",
                                                     ZeroVisitReportReadDoc)]
      /\ UNCHANGED <<listener, delivered, topic>>

\* create: GetDocument(reportid, &doc) re-reads the created report; on an
\* error doc stays the zero value and the handler goes on
createRead(ok) ==
  /\ req.pc = "create_read"
  /\ ok => req.reportid \in DOMAIN store
  /\ req' = [req EXCEPT !.pc = "create_send", !.errRead = ~ok,
                        !.doc = IF ok THEN store[req.reportid] ELSE ZeroVisitReportModel,
                        !.storeCalls = @ + 1]
  /\ UNCHANGED <<store, listener, delivered, topic, served, usedIds>>

\* a create that takes the report back when its send fails
createSendRollsBack(ok) ==
  /\ req.pc = "create_send"
  /\ topic' = IF ok THEN Append(topic, EventDoc(CreatedEventType, req.doc)) ELSE topic
  /\ store' = IF ok THEN store ELSE DeleteDocument(store, req.reportid)
  /\ req' = [req EXCEPT !.pc = "done", !.sends = @ + 1, !.errSend = ~ok,
               !.storeCalls = IF ok THEN @ ELSE @ + 1,
               !.resp = IF ok
                        THEN Response(StatusCreated, "doc",
                                      CopyModelToReadDoc(ZeroVisitReportReadDoc, req.doc))
                        ELSE DefaultResponse]
  /\ UNCHANGED <<listener, delivered, served, usedIds>>

\* create: build the event from doc, send it; on a send error return, else
\* answer 201 with the projection of doc
createSend(ok) ==
  /\ req.pc = "create_send"
  /\ topic' = IF ok THEN Append(topic, EventDoc(CreatedEventType, req.doc)) ELSE topic
  /\ req' = [req EXCEPT !.pc = "done", !.sends = @ + 1, !.errSend = ~ok,
               !.resp = IF ok
                        THEN Response(StatusCreated, "doc",
                                      CopyModelToReadDoc(ZeroVisitReportReadDoc, req.doc))
                        ELSE DefaultResponse]
  /\ UNCHANGED <<store, listener, delivered, served, usedIds>>

\* update up to copier.Copy(&model, &vr): bind, GetDocument(reportid,
\* &model) whose error is only printed, overlay the body
update(reportid, vr, ok) ==
  /\ req.pc \in {"idle", "done"}
  /\ delivered + served < MaxOps
  /\ served' = served + 1
  /\ IF updateBindError(vr)
     THEN req' = [StartReq EXCEPT !.pc = "done", !.kind = "update", !.bindErr = TRUE,
                    !.resp = Response(StatusBadRequest, "error", ZeroVisitReportReadDoc)]
     ELSE /\ ok => reportid \in DOMAIN store
          /\ req' = [StartReq EXCEPT !.pc = "update_replace", !.kind = "update",
                       !.reportid = reportid, !.vr = vr, !.errRead = ~ok,
                       !.storeCalls = 1,
                       !.model = CopyUpdateDocToModel(
                                   IF ok THEN store[reportid] ELSE ZeroVisitReportModel, vr)]
  /\ UNCHANGED <<store, listener, delivered, topic, usedIds>>

\* update: ReplaceDocument(reportid, model); an error answers 500
updateReplace(ok) ==
  /\ req.pc = "update_replace"
  /\ ok => ReplaceAccepted(store, req.reportid, req.model)
  /\ store' = IF ok THEN ReplaceDocument(store, req.reportid, req.model) ELSE store
  /\ req' = IF ok
            THEN [req EXCEPT !.pc = "update_send", !.wrote = TRUE, !.written = req.model,
                             !.storeCalls = @ + 1]
            ELSE [req EXCEPT !.pc = "done", !.storeCalls = @ + 1,
                             !.resp = Response(StatusInternalServerError, "empty",
                                               ZeroVisitReportReadDoc)]
  /\ UNCHANGED <<listener, delivered, topic, served, usedIds>>

\* an update that sends again after a failed send
updateSendRetries(ok) ==
  /\ req.pc = "update_send"
  /\ topic' = IF ok THEN Append(topic, EventDoc(UpdatedEventType, req.model)) ELSE topic
  /\ req' = IF ok
            THEN [req EXCEPT !.pc = "done", !.sends = @ + 1,
                             !.resp = Response(StatusOK, "doc", ZeroVisitReportReadDoc)]
            ELSE [req EXCEPT !.sends = @ + 1, !.errSend = TRUE]
  /\ UNCHANGED <<store, listener, delivered, served, usedIds>>

\* update: build the event from model, send it; on a send error return,
\* else doc := VisitReportReadDoc{}, copier.Copy(&model, &doc), answer 200
\* with doc
updateSend(ok) ==
  LET doc == ZeroVisitReportReadDoc
  IN  /\ req.pc = "update_send"
      /\ topic' = IF ok THEN Append(topic, EventDoc(UpdatedEventType, req.model)) ELSE topic
      /\ req' = [req EXCEPT !.pc = "done", !.sends = @ + 1, !.errSend = ~ok,
                   !.model = IF ok THEN CopyReadDocToModel(req.model, doc) ELSE @,
                   !.resp = IF ok THEN Response(StatusOK, "doc", doc) ELSE DefaultResponse]
      /\ UNCHANGED <<store, listener, delivered, served, usedIds>>

\* a delete that answers 500 when DeleteDocument fails
deleteAnswersStoreError(reportid, ok) ==
  /\ req.pc \in {"idle", "done"}
  /\ delivered + served < MaxOps
  /\ served' = served + 1
  /\ ok => reportid \in DOMAIN store
  /\ store' = IF ok THEN DeleteDocument(store, reportid) ELSE store
  /\ req' = [StartReq EXCEPT !.pc = "done", !.kind = "delete", !.reportid = reportid,
               !.wrote = ok, !.storeCalls = 1,
               !.resp = Response(IF ok THEN StatusOK ELSE StatusInternalServerError,
                                 "empty", ZeroVisitReportReadDoc)]
  /\ UNCHANGED <<listener, delivered, topic, usedIds>>

\* delete: DeleteDocument(reportid); an error is only printed; answer 200
delete(reportid, ok) ==
  /\ req.pc \in {"idle", "done"}
  /\ delivered + served < MaxOps
  /\ served' = served + 1
  /\ ok => reportid \in DOMAIN store
  /\ store' = IF ok THEN DeleteDocument(store, reportid) ELSE store
  /\ req' = [StartReq EXCEPT !.pc = "done", !.kind = "delete", !.reportid = reportid,
               !.wrote = ok, !.storeCalls = 1,
               !.resp = Response(StatusOK, "empty", ZeroVisitReportReadDoc)]
  /\ UNCHANGED <<listener, delivered, topic, usedIds>>

\* ------------------------------------------------------- specifications
\* one handler invocation at a time and no HTTP traffic
NextListener ==
  \/ \E p \in Payloads : Handle("h1", p)
  \/ \E ok \in BOOLEAN : HandleQuery("h1", ok)
  \/ \E id \in AllIds, ok \in BOOLEAN : updateInBg("h1", id, ok)
  \/ HandleComplete("h1")

SpecListener == Init /\ [][NextListener]_vars

\* the same with the scheduling the runtime gives: every store call
\* returns, with a result or an error, every started goroutine runs, and a
\* handler that can return from wg.Wait() goes on to Complete
SpecListenerLive ==
  /\ SpecListener
  /\ WF_vars(\E ok \in BOOLEAN : HandleQuery("h1", ok))
  /\ \A id \in AllIds : WF_vars(\E ok \in BOOLEAN : updateInBg("h1", id, ok))
  /\ WF_vars(HandleComplete("h1"))


\* the HTTP handlers alone, one request at a time
NextHttp ==
  \/ \E b \in CreateInputs, ok \in BOOLEAN : create(b, ok)
  \/ \E ok \in BOOLEAN : createRead(ok)
  \/ \E ok \in BOOLEAN : createSend(ok)
  \/ \E id \in ReportIds, b \in UpdateBodies, ok \in BOOLEAN :
       \E bid \in {id, ForeignId} : update(id, [b EXCEPT !.Id = bid], ok)
  \/ \E ok \in BOOLEAN : updateReplace(ok)
  \/ \E ok \in BOOLEAN : updateSend(ok)
  \/ \E id \in ReportIds, ok \in BOOLEAN : delete(id, ok)

SpecHttp == Init /\ [][NextHttp]_vars

\* two handler invocations running concurrently, each slot taking one
\* message, no HTTP traffic
NextFanout ==
  \/ \E h \in Handlers, p \in RacingPayloads :
       listener[h].pc = "idle" /\ Handle(h, p)
  \/ \E h \in Handlers, ok \in BOOLEAN : HandleQuery(h, ok)
  \/ \E h \in Handlers, id \in AllIds, ok \in BOOLEAN : updateInBg(h, id, ok)
  \/ \E h \in Handlers : HandleComplete(h)

SpecFanout == Init /\ [][NextFanout]_vars

\* the service: handler invocations, one at a time, interleaved with HTTP
\* requests
Next ==
  \/ NextListener
  \/ NextHttp

Spec == Init /\ [][Next]_vars


\* ================================================================ claims
\* the four descriptive snapshot fields of a report
Snapshot(d) ==
  <<d.Contact.Firstname, d.Contact.Lastname, d.Contact.AvatarLocation, d.Contact.Company>>

SnapshotOf(c) == <<c.Firstname, c.Lastname, c.AvatarLocation, c.Company>>

\* everything of a report a fan-out replace is not meant to touch
Frame(d) ==
  <<d.Contact.Id, d.Subject, d.Description, d.VisitDate, d.Result,
    d.VisitResultSentimentScore, d.VisitResultKeyPhrases>>

\* the stored reports that embed contact cid
Matching(s, cid) == {k \in DOMAIN s : s[k].Contact.Id = cid}

\* the replaces of invocation l that returned an error
Failed(l) == {k \in DOMAIN l.docs : l.work[k] = "err"}

\* C1: a payload that fails to decode is abandoned and nothing else is done
\* for it: no QueryDocuments, no ReplaceDocument and no Complete call.
C1_DecodeFailureStops ==
  \A h \in Handlers :
    listener[h].err =>
      /\ listener[h].abandonCalls = 1
      /\ listener[h].queryCalls = 0
      /\ listener[h].replaceCalls = 0
      /\ listener[h].completeCalls = 0

\* C2: no message is both abandoned and completed.
C2_AbandonXorComplete ==
  \A h \in Handlers :
    ~(listener[h].abandonCalls > 0 /\ listener[h].completeCalls > 0)

\* C3 as claimed: once a notification for contact C is processed, every
\* report that embedded C.id before carries C's four snapshot fields, with its
\* id and recordType as before.
C3_AllMatchedUpdated ==
  \A h \in Handlers :
    LET l == listener[h] IN
    (l.pc = "done" /\ WellFormed(l.m)) =>
      \A k \in Matching(l.store0, l.m.id) :
        /\ k \in DOMAIN store
        /\ Snapshot(store[k]) = SnapshotOf(ContactOf(l.m))
        /\ store[k].Id = l.store0[k].Id
        /\ store[k].Type = l.store0[k].Type

\* C3 amended: when the query succeeds a replace is attempted for every report
\* that embedded C.id; a report whose replace succeeded carries C's four
\* snapshot fields, with id and recordType as before; a report whose replace
\* failed, and every report when the query failed, is as it was.
C3_MatchedUpdatedWhenReplaced ==
  \A h \in Handlers :
    LET l == listener[h] IN
    (l.pc = "done" /\ WellFormed(l.m)) =>
      \A k \in Matching(l.store0, l.m.id) :
        /\ k \in DOMAIN store
        /\ ~l.errQuery => l.work[k] \in {"ok", "err"}
        /\ l.work[k] = "ok" =>
             /\ Snapshot(store[k]) = SnapshotOf(ContactOf(l.m))
             /\ store[k].Id = l.store0[k].Id
             /\ store[k].Type = l.store0[k].Type
        /\ l.work[k] # "ok" => store[k] = l.store0[k]

C3_Witness ==
  \E k \in DOMAIN store :
    LET l == listener["h1"] IN
    /\ l.pc = "done" /\ WellFormed(l.m)
    /\ k \in Matching(l.store0, l.m.id)
    /\ l.work[k] = "ok"
    /\ Snapshot(store[k]) # Snapshot(l.store0[k])
    /\ Snapshot(store[k]) = SnapshotOf(ContactOf(l.m))

\* the step in which the goroutine of invocation h for report k has its
\* replace accepted
FanoutReplaced(h, k) ==
  listener[h].work[k] = "running" /\ listener'[h].work[k] = "ok"

\* C4 as claimed: a fan-out replace of R leaves R's contact.id, subject,
\* description, visitDate, result, sentiment score and key phrases as they
\* were stored immediately before the replace, whatever update requests ran.
C4_ReplaceKeepsStoredFrame ==
  [][\A h \in Handlers, k \in AllIds :
       FanoutReplaced(h, k) =>
         /\ k \in DOMAIN store /\ k \in DOMAIN store'
         /\ Frame(store'[k]) = Frame(store[k])]_vars

\* C4 amended: a fan-out replace of R writes the document the listener's
\* query returned for R with only the four snapshot fields set anew: R's other
\* fields afterwards equal the values the query returned (the values stored
\* before the replace unless an update of R was persisted in between, which
\* the replace then overwrites), and no other report changes.
C4_ReplaceKeepsQueriedFrame ==
  [][\A h \in Handlers, k \in AllIds :
       FanoutReplaced(h, k) =>
         /\ k \in DOMAIN store /\ DOMAIN store' = DOMAIN store
         /\ Frame(store'[k]) = Frame(listener[h].docs[k])
         /\ store'[k].Id = k /\ store'[k].DetectedLanguage = listener[h].docs[k].DetectedLanguage
         /\ Snapshot(store'[k]) = SnapshotOf(listener[h].doc)
         /\ Frame(store[k]) = Frame(listener[h].docs[k]) => Frame(store'[k]) = Frame(store[k])
         /\ \A j \in DOMAIN store \ {k} : store'[j] = store[j]]_vars

\* a fan-out replace has overwritten an update persisted after the query
C4_Witness ==
  \E k \in DOMAIN store :
    LET l == listener["h1"] IN
    /\ l.work[k] = "ok"
    /\ req.kind = "update" /\ req.wrote /\ req.reportid = k
    /\ req.written.Subject # l.docs[k].Subject
    /\ store[k].Subject = l.docs[k].Subject
    /\ Snapshot(store[k]) = SnapshotOf(l.doc)

\* C5: when exactly one of the N matched reports fails its replace, a replace
\* was called for each of the N, the other N-1 succeeded and carry the new
\* snapshot.
C5_FailureIsolated ==
  \A h \in Handlers :
    LET l == listener[h] IN
    (l.pc = "done" /\ Cardinality(Failed(l)) = 1) =>
      /\ l.replaceCalls = Cardinality(DOMAIN l.docs)
      /\ \A k \in DOMAIN l.docs \ Failed(l) :
           /\ l.work[k] = "ok"
           /\ k \in DOMAIN store
           /\ Snapshot(store[k]) = SnapshotOf(l.doc)
      /\ \A k \in Failed(l) : store[k] = l.store0[k]

C5_Witness ==
  LET l == listener["h1"] IN
  /\ l.pc = "done"
  /\ Cardinality(DOMAIN l.docs) >= 2
  /\ Cardinality(Failed(l)) = 1
  /\ \E k \in DOMAIN l.docs : l.work[k] = "ok" /\ store[k] # l.store0[k]

\* C6: Complete is called only after every replace of the invocation has
\* returned: no goroutine of a completed message is still running.
C6_CompleteAfterBarrier ==
  \A h \in Handlers :
    LET l == listener[h] IN
    l.completeCalls > 0 =>
      /\ \A k \in AllIds : l.work[k] # "running"
      /\ l.replaceCalls = Cardinality(DOMAIN l.docs)

C6_Witness ==
  LET l == listener["h1"] IN
  /\ l.completeCalls = 1
  /\ Cardinality(DOMAIN l.docs) >= 2
  /\ l.replaceCalls = Cardinality(DOMAIN l.docs)

\* what create and update answer when the send succeeds
SuccessResponse(r) ==
  IF r.kind = "create"
  THEN Response(StatusCreated, "doc", CopyModelToReadDoc(ZeroVisitReportReadDoc, r.doc))
  ELSE Response(StatusOK, "doc", ZeroVisitReportReadDoc)

\* C7: a failed publish does not change what create or update answer: the
\* status and body are those of a request whose publish succeeded.
C7_PublishFailureInvisible ==
  (req.pc = "done" /\ req.kind \in {"create", "update"} /\ req.sends = 1) =>
    req.resp = SuccessResponse(req)

C9_NoMatchIsNoOp ==
  \A h \in Handlers :
    LET l == listener[h] IN
    (WellFormed(l.m) /\ l.pc # "idle" /\ Matching(l.store0, l.m.id) = {}) =>
      /\ l.replaceCalls = 0
      /\ \A k \in AllIds : l.work[k] = "none"
      /\ store = l.store0
      /\ l.abandonCalls = 0
      /\ l.pc = "done" => (l.completeCalls = 1 /\ l.ret = "nil")

C9_Witness ==
  LET l == listener["h1"] IN
  /\ l.pc = "done" /\ WellFormed(l.m) /\ ~l.errQuery
  /\ Matching(l.store0, l.m.id) = {}
  /\ DOMAIN l.store0 # {}
  /\ l.completeCalls = 1

\* C10: when QueryDocuments fails no replace is called, no stored report
\* changes and the message is completed, not abandoned.
C10_QueryFailureCompletes ==
  \A h \in Handlers :
    LET l == listener[h] IN
    (l.pc = "done" /\ l.errQuery) =>
      /\ l.replaceCalls = 0
      /\ store = l.store0
      /\ l.completeCalls = 1
      /\ l.abandonCalls = 0

\* the events the current request has put on the topic
PublishedByReq == SubSeq(topic, req.topic0 + 1, Len(topic))

\* the report a successful create has persisted: stored under the generated
\* id, which is one of the generator's and not the id the client sent, with
\* the fixed discriminator and the fields of the body
CreatePersisted ==
  /\ req.reportid \in ReportIds
  /\ req.reportid \in DOMAIN store
  /\ store[req.reportid].Id = req.reportid
  /\ store[req.reportid].Type = PartitionKeyValue
  /\ store[req.reportid] = req.written
  /\ \A b \in CreateBodies : b.Id # req.reportid

\* C11 as claimed: a create that passes validation and whose store create
\* succeeds persists a report with a newly generated id and the fixed
\* recordType, and exactly one event, of type VisitReportCreatedEvent and
\* version "1", is published for it.
C11_CreatePublishesOne ==
  (req.kind = "create" /\ req.wrote /\ req.pc = "done") =>
    /\ CreatePersisted
    /\ Len(PublishedByReq) = 1
    /\ PublishedByReq[1].EventType = "VisitReportCreatedEvent"
    /\ PublishedByReq[1].Version = "1"

\* C11 amended: the created report is persisted with an id no report had
\* before and the fixed recordType; Send is called exactly once, and exactly
\* one event, of type VisitReportCreatedEvent and version "1", is published
\* when that send succeeds, none when it fails.
C11_CreatePublishesOneIfSent ==
  /\ [](req.kind = "create" /\ req.wrote => CreatePersisted)
  /\ [](req.kind = "create" /\ req.wrote /\ req.pc = "done" =>
          /\ req.sends = 1
          /\ req.errSend => PublishedByReq = <<>>
          /\ ~req.errSend =>
               /\ Len(PublishedByReq) = 1
               /\ PublishedByReq[1].EventType = "VisitReportCreatedEvent"
               /\ PublishedByReq[1].Version = "1")
  /\ [][(req'.kind = "create" /\ req'.wrote /\ served' = served + 1) =>
         /\ req'.reportid \notin DOMAIN store
         /\ req'.reportid \notin usedIds
         /\ DOMAIN store' = DOMAIN store \cup {req'.reportid}
         /\ \A k \in DOMAIN store : store'[k] = store[k]]_vars

C11_Witness ==
  /\ req.kind = "create" /\ req.wrote /\ req.pc = "done" /\ ~req.errSend
  /\ DOMAIN store # {req.reportid}
  /\ Len(topic) = 1 /\ topic[1].EventType = CreatedEventType

\* an update whose body was bound and whose target is a stored report (with
\* one request at a time the store changes only by the update's own replace)
UpdateOfExisting ==
  /\ req.kind = "update" /\ ~req.bindErr /\ req.pc = "done"
  /\ req.wrote \/ req.reportid \in DOMAIN store

\* the report the update persisted carries the result of the body
UpdatePersistedResult ==
  /\ req.written.Id \in DOMAIN store
  /\ store[req.written.Id] = req.written
  /\ store[req.written.Id].Result = req.vr.Result

\* C12 as claimed: an update of an existing report with a new result value
\* persists that value and publishes exactly one event, of type
\* VisitReportUpdatedEvent and version "1", whose result is the new value.
C12_UpdatePublishesOne ==
  UpdateOfExisting =>
    /\ req.wrote
    /\ UpdatePersistedResult
    /\ Len(PublishedByReq) = 1
    /\ PublishedByReq[1].EventType = "VisitReportUpdatedEvent"
    /\ PublishedByReq[1].Version = "1"
    /\ PublishedByReq[1].VisitReportReadDoc.Result = req.vr.Result

\* C12 amended: when the update's replace succeeds the stored report carries
\* the new result and Send is called once; when that send succeeds exactly
\* one event, of type VisitReportUpdatedEvent and version "1" with the new
\* result, is published, and none when it fails; when the replace fails
\* nothing is persisted and nothing is published.
C12_UpdatePublishesOneIfSent ==
  UpdateOfExisting =>
    /\ req.wrote =>
         /\ UpdatePersistedResult
         /\ req.sends = 1
         /\ req.errSend => PublishedByReq = <<>>
         /\ ~req.errSend =>
              /\ Len(PublishedByReq) = 1
              /\ PublishedByReq[1].EventType = "VisitReportUpdatedEvent"
              /\ PublishedByReq[1].Version = "1"
              /\ PublishedByReq[1].VisitReportReadDoc.Result = req.vr.Result
    /\ ~req.wrote =>
         /\ req.sends = 0 /\ PublishedByReq = <<>>
         /\ req.resp.status = StatusInternalServerError

C12_Witness ==
  /\ UpdateOfExisting /\ req.wrote /\ ~req.errSend
  /\ req.reportid \in DOMAIN store
  /\ store[req.reportid].Result = "r-new"
  /\ store[req.reportid].VisitResultSentimentScore = 7
  /\ Len(topic) = 1 /\ topic[1].VisitReportReadDoc.Result = "r-new"

\* the fields of the readable projection the update response is to carry
Readable(d) == <<d.Id, d.Subject, d.Description, d.VisitDate, d.Result, d.Contact>>

\* C13: the body of a successful update response is the readable projection
\* of the report as that update persisted it: id, subject, description,
\* visitDate, result and contact equal those of the document passed to
\* ReplaceDocument.
C13_UpdateAnswersPersisted ==
  (req.kind = "update" /\ req.pc = "done" /\ req.wrote /\ ~req.errSend) =>
    /\ req.resp.status = StatusOK
    /\ Readable(req.resp.doc) = Readable(req.written)

\* C14: every event create or update publishes carries the readable
\* projection of the report the handler just persisted, and so its id, also
\* when the re-read that follows the store create failed.
C14_EventCarriesPersisted ==
  (req.kind \in {"create", "update"} /\ req.pc = "done") =>
    \A i \in 1..Len(PublishedByReq) :
      /\ PublishedByReq[i].VisitReportReadDoc =
           CopyModelToReadDoc(ZeroVisitReportReadDoc, req.written)
      /\ PublishedByReq[i].VisitReportReadDoc.Id = req.written.Id

\* both invocations have completed notifications for the same contact
BothHandled ==
  /\ \A h \in Handlers : listener[h].pc = "done" /\ WellFormed(listener[h].m)
  /\ listener["h1"].m.id = listener["h2"].m.id

\* the reports affected by the two notifications: those that embedded the
\* contact when the first invocation started
Affected == Matching(listener["h1"].store0, listener["h1"].m.id)

\* C15 as claimed: after two concurrently handled notifications for one
\* contact have completed, the stored snapshot of each affected report is
\* that of exactly one of the two notifications, never a mix.
C15_SnapshotOfOneNotification ==
  BothHandled =>
    \A k \in Affected :
      /\ k \in DOMAIN store
      /\ Snapshot(store[k]) \in {SnapshotOf(listener[h].doc) : h \in Handlers}

\* C15 amended: every applied fan-out replace sets the whole snapshot of its
\* notification and nothing else changes the store, so after both have
\* completed an affected report with an applied replace carries the four
\* fields of one notification, the one applied last, and an affected report
\* with no applied replace carries its previous snapshot; never a mix.
C15_SnapshotOfLastApplied ==
  /\ [][\A h \in Handlers, k \in AllIds :
          FanoutReplaced(h, k) =>
            /\ Snapshot(store'[k]) = SnapshotOf(listener[h].doc)
            /\ \A j \in DOMAIN store \ {k} : store'[j] = store[j]]_vars
  /\ [][store' # store => \E h \in Handlers, k \in AllIds : FanoutReplaced(h, k)]_vars
  /\ [](BothHandled =>
          \A k \in Affected :
            LET applied == {h \in Handlers : listener[h].work[k] = "ok"}
            IN  /\ k \in DOMAIN store
                /\ applied # {} =>
                     Snapshot(store[k]) \in {SnapshotOf(listener[h].doc) : h \in applied}
                /\ applied = {} =>
                     Snapshot(store[k]) = Snapshot(listener["h1"].store0[k]))

\* both replaces of a report were applied and the one of the invocation
\* that started first was applied last
C15_Witness ==
  /\ BothHandled
  /\ listener["h1"].m # listener["h2"].m
  /\ \E k \in Affected :
       /\ \A h \in Handlers : listener[h].work[k] = "ok"
       /\ Snapshot(store[k]) = SnapshotOf(listener["h1"].doc)
       /\ Snapshot(listener["h2"].store0[k]) = Snapshot(listener["h1"].store0[k])

\* the step in which the delete handler runs
DeleteStep == served' = served + 1 /\ req'.kind = "delete"

\* every stored report but the one addressed stays as it is
OthersUnchanged(id) ==
  \A j \in DOMAIN store \ {id} : j \in DOMAIN store' /\ store'[j] = store[j]

\* C16 as claimed: a delete request removes the report with the given id
\* from the store, publishes no event and changes no other stored report.
C16_DeleteRemoves ==
  [][DeleteStep =>
       /\ req'.reportid \notin DOMAIN store'
       /\ topic' = topic
       /\ OthersUnchanged(req'.reportid)]_vars

\* C16 amended: a delete request whose DeleteDocument succeeds removes the
\* report with the given id for good; one whose DeleteDocument fails leaves
\* the store as it is; either way no event is published and no other stored
\* report changes.
C16_DeleteRemovesIfStoreDoes ==
  [][DeleteStep =>
       /\ req'.wrote =>
            /\ req'.reportid \in DOMAIN store
            /\ DOMAIN store' = DOMAIN store \ {req'.reportid}
       /\ ~req'.wrote => store' = store
       /\ topic' = topic /\ req'.sends = 0
       /\ OthersUnchanged(req'.reportid)]_vars

C16_Witness ==
  /\ req.kind = "delete" /\ req.wrote /\ req.pc = "done"
  /\ req.reportid \in usedIds
  /\ req.reportid \notin DOMAIN store
  /\ DOMAIN store # {}
  /\ topic = <<>>

\* the request in hand is a create or an update whose body lacks a required
\* field (the contact id of a create body, the subject of an update body)
InvalidBodyInHand ==
  \/ req.kind = "create" /\ req.model.Contact.Id = ""
  \/ req.kind = "update" /\ req.vr.Subject = ""

\* C17: a create or update whose body fails binding is answered with an
\* error before any store call or publish call is made; the store and the
\* topic stay as they are.
C17_BindErrorBeforeEffects ==
  /\ [](InvalidBodyInHand =>
          /\ req.bindErr /\ req.pc = "done"
          /\ req.resp.status = StatusBadRequest /\ req.resp.kind = "error"
          /\ req.storeCalls = 0 /\ req.sends = 0
          /\ ~req.wrote /\ PublishedByReq = <<>>)
  /\ [][(served' = served + 1 /\ req'.bindErr) =>
         /\ store' = store /\ topic' = topic /\ usedIds' = usedIds]_vars

\* a rejected update while reports are stored and an event is on the topic
C17_Witness ==
  /\ req.bindErr /\ req.kind = "update" /\ req.pc = "done"
  /\ req.resp.status = StatusBadRequest
  /\ DOMAIN store # {} /\ topic # <<>>

\* C18: a report's id is assigned once at creation and never changes: every
\* stored report's id field is the id it is stored under and is an id the
\* generator handed out at a creation, also after an update whose body
\* carries an id other than the path id.
C18_IdNeverChanges ==
  \A k \in DOMAIN store : store[k].Id = k /\ k \in usedIds

\* the document update has handed to ReplaceDocument, once it has called it
HandedToReplace == IF req.wrote THEN req.written ELSE req.model

\* C19: every stored report's recordType is the fixed discriminator, and
\* update never writes a document with another or an empty recordType, also
\* when its fetch of the current document failed.
C19_RecordTypeFixed ==
  /\ \A k \in DOMAIN store : store[k].Type = PartitionKeyValue
  /\ (req.kind = "update" /\ req.storeCalls = 2) =>
       HandedToReplace.Type = PartitionKeyValue

\* C20: per report the only lifecycle transitions are from non-existent to
\* stored by create and from stored to non-existent by delete; an update or
\* a fan-out replace makes no id exist that was not stored and no stored id
\* vanish.
C20_LifecycleTransitions ==
  [][\A k \in AllIds :
       /\ (k \notin DOMAIN store /\ k \in DOMAIN store') =>
            (served' = served + 1 /\ req'.kind = "create")
       /\ (k \in DOMAIN store /\ k \notin DOMAIN store') =>
            (served' = served + 1 /\ req'.kind = "delete")]_vars

\* the reports whose replace invocation l has attempted
Attempted(l) == {k \in AllIds : l.work[k] \in {"ok", "err"}}

\* C21: a query that returns N reports starts N replace operations, one per
\* returned report, all in flight together; each report's replace is
\* attempted exactly once, a failed one is not tried again.
C21_OneReplacePerReport ==
  /\ [](\A h \in Handlers :
          LET l == listener[h] IN
          /\ l.replaceCalls = Cardinality(Attempted(l))
          /\ Attempted(l) \subseteq DOMAIN l.docs
          /\ l.pc = "wait" =>
               \A k \in DOMAIN l.docs : l.work[k] \in {"running", "ok", "err"}
          /\ l.pc = "done" =>
               /\ Attempted(l) = DOMAIN l.docs
               /\ l.replaceCalls = Cardinality(DOMAIN l.docs))
  /\ [][\A h \in Handlers :
          /\ (listener[h].pc = "query" /\ listener'[h].pc = "wait") =>
               \A k \in DOMAIN listener'[h].docs : listener'[h].work[k] = "running"
          /\ listener'[h].pc \in {"wait", "done"} =>
               \A k \in Attempted(listener[h]) :
                 listener'[h].work[k] = listener[h].work[k]]_vars

\* two reports were returned, one replace failed, and the invocation ended
\* with two replace calls
C21_Witness ==
  LET l == listener["h1"] IN
  /\ l.pc = "done"
  /\ Cardinality(DOMAIN l.docs) = 2
  /\ l.replaceCalls = 2
  /\ \E k \in DOMAIN l.docs : l.work[k] = "err"

\* C22: a create or update request makes at most one send attempt, and none
\* when validation failed or CreateDocument / ReplaceDocument returned an
\* error; a failed send is not tried again.
C22_AtMostOneSend ==
  /\ [](req.kind \in {"create", "update"} =>
          /\ req.sends <= 1
          /\ Len(PublishedByReq) <= req.sends
          /\ req.bindErr => req.sends = 0
          /\ ~req.wrote => req.sends = 0
          /\ req.errSend => (req.sends = 1 /\ req.pc = "done" /\ PublishedByReq = <<>>))
  /\ [][(req.errSend /\ served' = served) => (req' = req /\ topic' = topic)]_vars

\* an update whose send failed has ended with that one attempt and no
\* event, after an earlier request published its event
C22_Witness ==
  /\ req.kind = "update" /\ req.pc = "done" /\ req.wrote
  /\ req.errSend /\ req.sends = 1
  /\ PublishedByReq = <<>> /\ topic # <<>>

\* the fields of a stored report that the update document does not have
Analysis(d) ==
  <<d.VisitResultSentimentScore, d.VisitResultKeyPhrases, d.DetectedLanguage, d.Type>>

\* the step in which update's ReplaceDocument succeeds
UpdateReplaced == req.pc = "update_replace" /\ req'.wrote

\* C23: a successful update overlays the fields of the update document onto
\* the fetched document: the sentiment score, key phrases and detected
\* language (and recordType) of the stored report after the update are
\* those stored before it, while subject, description, result, visitDate
\* and contact are those of the body.
C23_UpdateKeepsAnalysis ==
  [][UpdateReplaced =>
       /\ req.reportid \in DOMAIN store
       /\ req'.written.Id \in DOMAIN store'
       /\ LET old == store[req.reportid]
              new == store'[req'.written.Id]
          IN  /\ Analysis(new) = Analysis(old)
              /\ new.Subject = req.vr.Subject
              /\ new.Description = req.vr.Description
              /\ new.Result = req.vr.Result
              /\ new.VisitDate = req.vr.VisitDate
              /\ new.Contact = req.vr.Contact]_vars

\* an updated report that still has the sentiment score, key phrases and
\* language it was created with
C23_Witness ==
  /\ req.kind = "update" /\ req.wrote /\ req.pc = "done"
  /\ req.reportid \in DOMAIN store
  /\ LET d == store[req.reportid]
     IN  /\ d.Subject = "Q1 final" /\ d.Result = "r-new"
         /\ d.VisitResultSentimentScore = 7
         /\ d.VisitResultKeyPhrases = <<"k1">>
         /\ d.DetectedLanguage = "en"

\* C24: provided every store call returns, a delivered notification is
\* eventually settled: the handler gets from its query and from the fan-out
\* barrier to its Complete call, whatever the number of matched reports and
\* the outcomes of their replaces.
C24_EventuallyComplete ==
  /\ (listener["h1"].pc = "query") ~>
       (listener["h1"].pc = "done" /\ listener["h1"].completeCalls = 1)
  /\ (listener["h1"].pc = "wait") ~>
       (listener["h1"].pc = "done" /\ listener["h1"].completeCalls = 1)

\* Complete was reached after two replaces, one applied and one failed
C24_Witness ==
  LET l == listener["h1"] IN
  /\ l.pc = "done" /\ l.completeCalls = 1
  /\ \E j, k \in DOMAIN l.docs : l.work[j] = "ok" /\ l.work[k] = "err"

\* the step in which create or update calls Send
SendStep == req.pc \in {"create_send", "update_send"} /\ req'.sends = req.sends + 1

\* C25: when the send fails after a successful create or update the store
\* write is not rolled back: the stored report stays exactly as that request
\* persisted it and no further store call is made.
C25_NoRollback ==
  /\ [][(SendStep /\ req'.errSend) =>
         /\ store' = store
         /\ req'.storeCalls = req.storeCalls
         /\ req'.pc = "done"]_vars
  /\ [](req.kind \in {"create", "update"} /\ req.errSend =>
          /\ req.wrote
          /\ req.written.Id \in DOMAIN store
          /\ store[req.written.Id] = req.written
          /\ req.storeCalls = 2)

\* a create whose send failed: the report is stored, nothing was published
C25_Witness ==
  /\ req.kind = "create" /\ req.pc = "done" /\ req.errSend
  /\ req.reportid \in DOMAIN store
  /\ store[req.reportid] = req.written
  /\ PublishedByReq = <<>>

\* the stored reports that embedded another contact than the decoded one
\* when invocation l started
NotMatching(l) == DOMAIN l.store0 \ Matching(l.store0, l.doc.Id)

\* C26: processing a notification for contact C leaves every stored report
\* whose embedded contact id differs from C.id unchanged; replaces are
\* issued only for the ids the query for C.id returned.
C26_OthersUntouched ==
  /\ [](\A h \in Handlers :
          LET l == listener[h] IN
          l.pc # "idle" =>
            /\ DOMAIN l.docs \subseteq Matching(l.store0, l.doc.Id)
            /\ \A k \in NotMatching(l) :
                 /\ l.work[k] = "none"
                 /\ k \in DOMAIN store /\ store[k] = l.store0[k])
  /\ [][\A h \in Handlers, k \in AllIds :
          listener'[h].work[k] \in {"ok", "err"} /\ listener[h].work[k] = "running" =>
            /\ k \in DOMAIN listener[h].docs
            /\ \A j \in DOMAIN store \ {k} : j \in DOMAIN store' /\ store'[j] = store[j]]_vars

\* a report of the contact was replaced while a report of another contact
\* is stored
C26_Witness ==
  LET l == listener["h1"] IN
  /\ l.pc = "done" /\ NotMatching(l) # {}
  /\ \E k \in DOMAIN l.docs : l.work[k] = "ok" /\ store[k] # l.store0[k]

\* the step in which the goroutine of invocation h for report k ends, its
\* replace applied or failed
FanoutReturned(h, k) ==
  listener[h].work[k] = "running" /\ listener'[h].work[k] \in {"ok", "err"}

\* invocation l has ended and a report its query returned is gone from the
\* store with its replace failed
DeletedUnderFanout(l) ==
  /\ l.pc = "done"
  /\ \E k \in DOMAIN l.docs : l.work[k] = "err" /\ k \notin DOMAIN store

\* C27: when a report is deleted after the query returned it and before its
\* replace is applied, the replace fails and the report stays absent: the
\* fan-out never re-creates a report, and the message is still completed.
C27_DeletedStaysDeleted ==
  /\ [][\A h \in Handlers, k \in AllIds :
          (FanoutReturned(h, k) /\ k \notin DOMAIN store) =>
            /\ listener'[h].work[k] = "err"
            /\ store' = store]_vars
  /\ [][\A h \in Handlers, k \in AllIds :
          FanoutReturned(h, k) => DOMAIN store' = DOMAIN store]_vars
  /\ [](\A h \in Handlers :
          DeletedUnderFanout(listener[h]) =>
            /\ listener[h].completeCalls = 1
            /\ listener[h].abandonCalls = 0
            /\ listener[h].ret = "nil")

\* C28: delete answers 200 whether or not DeleteDocument succeeded; a store
\* error, that of an id that is not stored included, changes nothing in the
\* store.
C28_DeleteAlwaysOK ==
  /\ [](req.kind = "delete" =>
          /\ req.pc = "done"
          /\ req.resp = Response(StatusOK, "empty", ZeroVisitReportReadDoc)
          /\ req.storeCalls = 1)
  /\ [][(DeleteStep /\ ~req'.wrote) => store' = store]_vars
  /\ [][(DeleteStep /\ req'.reportid \notin DOMAIN store) =>
         (~req'.wrote /\ store' = store)]_vars

\* a delete of an id that is not stored, answered 200 with reports stored
C28_Witness ==
  /\ req.kind = "delete" /\ ~req.wrote
  /\ req.reportid \notin usedIds
  /\ req.resp.status = StatusOK
  /\ DOMAIN store # {}

====
